---- MODULE Spec2Model ----
(***************************************************************************)
(* Model of the CSV export service: the job registry (JobQueue), the       *)
(* export pipeline (ExportService.processExport) and the cancel handler    *)
(* (ExportController.cancelExport / ExportService.cancelExport).           *)
(*                                                                         *)
(* One action per resumption of the pipeline: processExport is an async    *)
(* function, so everything between two awaits runs without interleaving.   *)
(* Continuations that are only a promise hop away (the code after          *)
(* `await jobQueue.addJob`, the `.catch` of initiateExport) run in the     *)
(* microtask queue, before any other request handler or I/O callback; the  *)
(* model keeps them as steps of their own and lets nothing else run while  *)
(* one is pending (Quiescent).                                             *)
(*                                                                         *)
(* The two handlers that compute a response from one request and the      *)
(* state they find (ExportController.initiateExport with the validators,   *)
(* ExportController.downloadExport) have specifications of their own,      *)
(* SpecInitiate and SpecDownload, whose initial states draw the request    *)
(* and, for the download, the job and the file it finds.                   *)
(*                                                                         *)
(* Abstractions: a job id is a small integer (uuidv4 is fresh per call);   *)
(* a timestamp is the ordinal of the write that set it (0 = unset); an     *)
(* error is its message; a row is its position in the cursor's result;     *)
(* the artifact file is reduced to whether <id>.csv exists.                *)
(***************************************************************************)
EXTENDS Integers, Sequences, FiniteSets, TLC

\* bounds of the model
MaxJobs == 1        \* jobs initiated in one run of the process
MaxRows == 3        \* rows a count query or a cursor can yield
BATCH_SIZE == 2     \* process.env.BATCH_SIZE (1000 when unset)
MaxCols == 2        \* names in the columns parameter of an initiate request
MaxSize == 3        \* bytes of an artifact the download handler finds
MaxRange == 3       \* characters after "bytes=" in a Range header
MaxAdmit == 6       \* jobs initiated in a run that looks at admission only
\* max of the pool
PoolMax == 20
\* JobQueue's declared cap (this.maxConcurrentJobs): assigned in the
\* constructor and read nowhere
maxConcurrentJobs == 5

JobIds == 1..MaxJobs
Terminal == {"completed", "failed", "cancelled"}
Streams == {"ws", "gen"}

VARIABLES
    jobs,           \* JobQueue.jobs: id -> job record (a Map: partial)
    pc,             \* where each job's processExport is suspended
    client,         \* the pipeline holds a pool connection
    acquired,       \* number of connections pool.connect() gave the pipeline
    released,       \* number of client.release() calls of the pipeline
    cursorOpen,     \* the job's cursor is declared and not closed
    cursorLeft,     \* rows the cursor has not yielded yet
    fetched,        \* rows the cursor has yielded
    batch,          \* rows of result.rows not yet written (for loop)
    written,        \* rows handed to csvStringifier.write, in order
    processedRows,  \* local variable processedRows of processExport
    err,            \* error being propagated by the pipeline
    streams,        \* the two write streams on <id>.csv were created
    opened,         \* which of them have opened the file
    fileExists,     \* <id>.csv exists in EXPORT_PATH
    timers,         \* ids with a pending cleanup timer of cancelExport
    cancelOk,       \* history: a DELETE for the id was answered 204
    resp,           \* response of the step just taken, if it was a DELETE
    alive,          \* the process has not exited
    request,        \* the GET or POST request a handler is answering
    fileSize,       \* stats.size of <id>.csv as the download handler reads it
    truncated       \* <id>.csv was truncated after the writer had put data in it

vars == <<jobs, pc, client, acquired, released, cursorOpen, cursorLeft,
          fetched, batch, written, processedRows, err, streams, opened,
          fileExists, timers, cancelOk, resp, alive, request, fileSize,
          truncated>>

NoResp == [op |-> "none", id |-> 0, code |-> 0]
NoRequest == [op |-> "none"]

----------------------------------------------------------------------------
(* JobQueue *)

NewJob ==
    [status |-> "pending", completedAt |-> 0, error |-> "none",
     filePath |-> FALSE, startedAt |-> FALSE,
     progress |-> [totalRows |-> 0, processedRows |-> 0, percentage |-> 0]]

\* Math.round((processedRows / totalRows) * 100) on non-negative integers
Percentage(p, t) == IF t > 0 THEN (200 * p + t) \div (2 * t) ELSE 0

startJob(job) == [job EXCEPT !.status = "processing", !.startedAt = TRUE]

\* updateProgress given the size of the batch just written instead of the
\* running count
updateProgressOfBatch(job, p, t) ==
    [job EXCEPT !.progress = [totalRows |-> t,
                             processedRows |-> p - job.progress.processedRows,
                             percentage |->
                                Percentage(p - job.progress.processedRows, t)]]

updateProgress(job, p, t) ==
    [job EXCEPT !.progress = [totalRows |-> t, processedRows |-> p,
                             percentage |-> Percentage(p, t)]]

\* completeJob called without the path of the artifact
completeJobNoPath(job) ==
    [job EXCEPT !.status = "completed",
                !.completedAt = @ + 1, !.progress.percentage = 100]

completeJob(job) ==
    [job EXCEPT !.status = "completed", !.filePath = TRUE,
                !.completedAt = @ + 1, !.progress.percentage = 100]

\* failJob that drops the error
failJobNoError(job, e) ==
    [job EXCEPT !.status = "failed", !.completedAt = @ + 1]

failJob(job, e) ==
    [job EXCEPT !.status = "failed", !.error = e, !.completedAt = @ + 1]

\* cancelJob's guard weakened: only a completed job is refused
cancelJobOkNotCompleted(job) == job.status # "completed"

\* the condition under which cancelJob transitions and returns true
cancelJobOk(job) == job.status \in {"pending", "processing"}

cancelJob(job) ==
    IF cancelJobOk(job)
    THEN [job EXCEPT !.status = "cancelled", !.completedAt = @ + 1]
    ELSE job

----------------------------------------------------------------------------
(* strings and numbers *)

\* A string whose characters matter is a sequence of one-character
\* strings. A query parameter or header is <<>> when it is undefined and
\* <<v>> when it has the value v.
Undefined == <<>>
Given(v) == <<v>>

\* a JavaScript value used as a condition: undefined and '' are falsy
Truthy(x) == x # Undefined /\ x[1] # <<>>

Digits == <<"0", "1", "2", "3", "4", "5", "6", "7", "8", "9">>
IsDigit(c) == \E i \in 1..10 : Digits[i] = c
DigitVal(c) == (CHOOSE i \in 1..10 : Digits[i] = c) - 1

\* the longest prefix of s made of digits
LeadingDigits(s) ==
    LET n == CHOOSE k \in 0..Len(s) :
                /\ \A i \in 1..k : IsDigit(s[i])
                /\ k = Len(s) \/ ~IsDigit(s[k + 1])
    IN  SubSeq(s, 1, n)

RECURSIVE DecValue(_)
DecValue(d) ==
    IF d = <<>> THEN 0
    ELSE 10 * DecValue(SubSeq(d, 1, Len(d) - 1)) + DigitVal(d[Len(d)])

\* a JavaScript number: NaN or an integer
NaN == [nan |-> TRUE, v |-> 0]
Num(n) == [nan |-> FALSE, v |-> n]
\* >= and > on numbers: false when either side is NaN
Ge(a, b) == ~a.nan /\ ~b.nan /\ a.v >= b.v
Gt(a, b) == ~a.nan /\ ~b.nan /\ a.v > b.v

\* parseInt(s, 10) of a string without sign or leading white space: the
\* leading digits, NaN when there are none; what follows is ignored
parseInt(s) ==
    IF LeadingDigits(s) = <<>> THEN NaN ELSE Num(DecValue(LeadingDigits(s)))

\* String(n) of a non-negative integer
RECURSIVE Dec(_)
Dec(n) ==
    IF n < 10 THEN <<Digits[n + 1]>>
    ELSE Dec(n \div 10) \o <<Digits[(n % 10) + 1]>>

\* s.split('-')
RECURSIVE Split(_)
Split(s) ==
    IF \E i \in 1..Len(s) : s[i] = "-"
    THEN LET i == CHOOSE k \in 1..Len(s) :
                     s[k] = "-" /\ \A m \in 1..(k - 1) : s[m] # "-"
         IN  <<SubSeq(s, 1, i - 1)>> \o Split(SubSeq(s, i + 1, Len(s)))
    ELSE <<s>>

\* parseFloat(s) of a string without leading white space or exponent: an
\* optional '-', digits, an optional fraction; NaN when no digit is found;
\* what follows is ignored
parseFloat(s) ==
    LET neg == s # <<>> /\ s[1] = "-"
        body == IF neg THEN Tail(s) ELSE s
        int == LeadingDigits(body)
        rest == SubSeq(body, Len(int) + 1, Len(body))
        frac == IF rest # <<>> /\ rest[1] = "."
                THEN LeadingDigits(Tail(rest)) ELSE <<>>
    IN  [nan |-> int = <<>> /\ frac = <<>>, neg |-> neg,
         int |-> DecValue(int), frac |-> frac]

\* ltv < 0
Negative(x) ==
    ~x.nan /\ x.neg /\ (x.int > 0 \/ \E i \in 1..Len(x.frac) : x.frac[i] # "0")

----------------------------------------------------------------------------
(* validators *)

VALID_COLUMNS ==
    <<"id", "name", "email", "signup_date", "country_code",
      "subscription_tier", "lifetime_value">>

Upper ==
    {"A", "B", "C", "D", "E", "F", "G", "H", "I", "J", "K", "L", "M", "N",
     "O", "P", "Q", "R", "S", "T", "U", "V", "W", "X", "Y", "Z"}

\* result of a validator: the value it returns, or the message it throws
Ok(v) == [error |-> "none", value |-> v]
Throw(m) == [error |-> m, value |-> <<>>]

\* The columns parameter is the sequence of the pieces between its commas
\* (what split(',') returns); a piece is a name, with or without white
\* space around it. trim() leaves the name.
Trim(piece) == piece.name

\* the pieces of the empty string
EmptyText(pieces) == pieces = <<[name |-> "", pad |-> FALSE]>>

validateColumns(columnsParam) ==
    LET requested == [i \in 1..Len(columnsParam) |-> Trim(columnsParam[i])]
        invalid == {i \in 1..Len(requested) :
                       \A k \in 1..Len(VALID_COLUMNS) :
                           VALID_COLUMNS[k] # requested[i]}
    IN  IF EmptyText(columnsParam) THEN Ok(VALID_COLUMNS)
        ELSE IF invalid # {} THEN Throw("Invalid column(s)")
        ELSE Ok(requested)

validateDelimiter(delim) ==
    IF ~Truthy(delim) THEN Ok(<<",">>)
    ELSE IF Len(delim[1]) # 1
    THEN Throw("Delimiter must be a single character")
    ELSE Ok(delim[1])

validateQuoteChar(quoteChar) ==
    IF ~Truthy(quoteChar) THEN Ok(<<"\"">>)
    ELSE IF Len(quoteChar[1]) # 1
    THEN Throw("Quote char must be a single character")
    ELSE Ok(quoteChar[1])

validTiers == {"free", "basic", "premium", "enterprise"}

\* validateFilters; a tier is a string that is only tested for emptiness
\* and membership
validateFilters(filters) ==
    LET cc == filters.country_code
        tier == filters.subscription_tier
        ltv == IF filters.min_ltv = Undefined THEN NaN
               ELSE parseFloat(filters.min_ltv[1])
    IN  IF Truthy(cc) /\ ~(Len(cc[1]) = 2 /\ cc[1][1] \in Upper
                             /\ cc[1][2] \in Upper)
        THEN Throw("Invalid country code format")
        ELSE IF tier # Undefined /\ tier[1] # "" /\ tier[1] \notin validTiers
        THEN Throw("Invalid subscription tier")
        ELSE IF filters.min_ltv # Undefined /\ (ltv.nan \/ Negative(ltv))
        THEN Throw("min_ltv must be a valid non-negative number")
        ELSE Ok([country_code |-> IF Truthy(cc) THEN cc ELSE Undefined,
                 subscription_tier |-> IF tier # Undefined /\ tier[1] # ""
                                       THEN tier ELSE Undefined,
                 min_ltv |-> IF filters.min_ltv # Undefined
                             THEN Given(ltv) ELSE Undefined])

\* the columns parameter is the empty string
EmptyColumns(c) == EmptyText(c[1])

\* the validation of ExportController.initiateExport, in its order: the
\* arguments for ExportService.initiateExport, or the first message thrown
Validate(q) ==
    LET columns == IF q.columns # Undefined /\ ~EmptyColumns(q.columns)
                   THEN validateColumns(q.columns[1]) ELSE Ok(<<>>)
        delimiter == validateDelimiter(q.delimiter)
        quoteChar == validateQuoteChar(q.quoteChar)
        filters == validateFilters([country_code |-> q.country_code,
                                    subscription_tier |-> q.subscription_tier,
                                    min_ltv |-> q.min_ltv])
    IN  IF columns.error # "none" THEN Throw(columns.error)
        ELSE IF delimiter.error # "none" THEN Throw(delimiter.error)
        ELSE IF quoteChar.error # "none" THEN Throw(quoteChar.error)
        ELSE IF filters.error # "none" THEN Throw(filters.error)
        ELSE Ok([filters |-> filters.value, columns |-> columns.value,
                 delimiter |-> delimiter.value,
                 quoteChar |-> quoteChar.value])

\* a POST /exports/csv without query parameters
NoParams ==
    [op |-> "POST", columns |-> Undefined, delimiter |-> Undefined,
     quoteChar |-> Undefined, country_code |-> Undefined,
     subscription_tier |-> Undefined, min_ltv |-> Undefined]

\* the job data ExportService.initiateExport passes to addJob; columns is
\* <<>> for null
JobData(args) ==
    [filters |-> args.filters,
     columns |-> IF args.columns = <<>> THEN VALID_COLUMNS ELSE args.columns,
     delimiter |-> args.delimiter,
     quoteChar |-> args.quoteChar]

\* the record addJob stores: the job data and the fields of a new job
addJob(jobData) == jobData @@ NewJob

----------------------------------------------------------------------------

Init ==
    /\ jobs = <<>>
    /\ pc = [j \in JobIds |-> "none"]
    /\ client = [j \in JobIds |-> FALSE]
    /\ acquired = [j \in JobIds |-> 0]
    /\ released = [j \in JobIds |-> 0]
    /\ cursorOpen = [j \in JobIds |-> FALSE]
    /\ cursorLeft = [j \in JobIds |-> 0]
    /\ fetched = [j \in JobIds |-> 0]
    /\ batch = [j \in JobIds |-> <<>>]
    /\ written = [j \in JobIds |-> <<>>]
    /\ processedRows = [j \in JobIds |-> 0]
    /\ err = [j \in JobIds |-> "none"]
    /\ streams = [j \in JobIds |-> FALSE]
    /\ opened = [j \in JobIds |-> {}]
    /\ fileExists = [j \in JobIds |-> FALSE]
    /\ timers = {}
    /\ cancelOk = [j \in JobIds |-> FALSE]
    /\ resp = NoResp
    /\ alive = TRUE
    /\ request = NoRequest
    /\ fileSize = 0
    /\ truncated = [j \in JobIds |-> FALSE]

\* the controller's initiateExport is suspended at its
\* `await ExportService.initiateExport(...)`: the job is registered and
\* the request not yet answered
ResponsePending == request.op = "POST" /\ jobs # <<>>

\* no promise continuation is waiting in the microtask queue
Quiescent ==
    /\ \A j \in DOMAIN pc : pc[j] \notin {"added", "rejected"}
    /\ ~ResponsePending

CheckedOut == Cardinality({j \in DOMAIN client : client[j]})

\* the rows of the cursor's result: those fetched and those still to come
CursorRows(j) == fetched[j] + cursorLeft[j]

\* lines of <id>.csv once the writer has finished: the header (written by
\* createEmptyCSV, or by the encoder, whose `header: true` emits it with
\* the first record or at end()) and one line per record written
ArtifactLines(j) == 1 + Len(written[j])

\* the while loop's head: the cancellation check, then CLOSE or FETCH
LoopTop(job) == IF job.status = "cancelled" THEN "closeCancel" ELSE "fetch"

----------------------------------------------------------------------------
(* initiate *)

\* ExportService.initiateExport up to `await jobQueue.addJob(...)`, for a
\* request without parameters; the job takes the first unused id.  Neither
\* initiateExport nor addJob reads maxConcurrentJobs or activeJobs.
AddJobIn(Ids) ==
    /\ alive /\ Quiescent
    /\ \E j \in Ids :
        /\ j \notin DOMAIN jobs
        /\ \A k \in Ids : k < j => k \in DOMAIN jobs
        /\ jobs' = jobs @@ (j :> addJob(JobData(Validate(NoParams).value)))
        /\ pc' = [pc EXCEPT ![j] = "added"]
    /\ resp' = NoResp
    /\ UNCHANGED <<request, fileSize, truncated>>
    /\ UNCHANGED <<client, acquired, released, cursorOpen, cursorLeft, fetched, batch,
                   written, processedRows, err, streams, opened, fileExists,
                   timers, cancelOk, alive>>

AddJob == AddJobIn(JobIds)

\* the jobs whose pipeline is running
Processing == {j \in DOMAIN jobs : jobs[j].status = "processing"}

\* a processExport that would leave the job pending while
\* maxConcurrentJobs jobs are processing
StartPipelineCapped(j) ==
    /\ alive /\ pc[j] = "added"
    /\ IF Cardinality(Processing) < maxConcurrentJobs
       THEN /\ jobs' = [jobs EXCEPT ![j] = startJob(@)]
            /\ pc' = [pc EXCEPT ![j] = "connect"]
       ELSE /\ jobs' = jobs
            /\ pc' = [pc EXCEPT ![j] = "queued"]
    /\ resp' = NoResp
    /\ UNCHANGED <<request, fileSize, truncated>>
    /\ UNCHANGED <<client, acquired, released, cursorOpen, cursorLeft, fetched, batch,
                   written, processedRows, err, streams, opened, fileExists,
                   timers, cancelOk, alive>>

\* processExport from its entry to `await pool.connect()`
StartPipeline(j) ==
    /\ alive /\ pc[j] = "added"
    /\ jobs' = [jobs EXCEPT ![j] = startJob(@)]
    /\ pc' = [pc EXCEPT ![j] = "connect"]
    /\ resp' = NoResp
    /\ UNCHANGED <<request, fileSize, truncated>>
    /\ UNCHANGED <<client, acquired, released, cursorOpen, cursorLeft, fetched, batch,
                   written, processedRows, err, streams, opened, fileExists,
                   timers, cancelOk, alive>>

----------------------------------------------------------------------------
(* the pipeline *)

\* processExport returns or throws: its locals (the counter, the batch,
\* the encoder and what it was given, the cursor's position) are dropped
Locals(j) ==
    /\ processedRows' = [processedRows EXCEPT ![j] = 0]
    /\ batch' = [batch EXCEPT ![j] = <<>>]
    /\ written' = [written EXCEPT ![j] = <<>>]
    /\ cursorLeft' = [cursorLeft EXCEPT ![j] = 0]
    /\ fetched' = [fetched EXCEPT ![j] = 0]

\* the outer catch without the finally block: the connection is kept
OuterCatchNoRelease(j, e) ==
    /\ jobs' = [jobs EXCEPT ![j] = failJob(@, e)]
    /\ fileExists' = [fileExists EXCEPT ![j] = FALSE]
    /\ err' = [err EXCEPT ![j] = e]
    /\ pc' = [pc EXCEPT ![j] = "rejected"]
    /\ Locals(j)
    /\ UNCHANGED <<client, acquired, released>>

\* the outer catch and the finally of processExport, for error e:
\* failJob, unlink of <id>.csv when it exists, client.release(), rethrow
OuterCatch(j, e) ==
    /\ jobs' = [jobs EXCEPT ![j] = failJob(@, e)]
    /\ fileExists' = [fileExists EXCEPT ![j] = FALSE]
    /\ client' = [client EXCEPT ![j] = FALSE]
    /\ released' = [released EXCEPT ![j] = @ + 1]
    /\ err' = [err EXCEPT ![j] = e]
    /\ pc' = [pc EXCEPT ![j] = "rejected"]
    /\ Locals(j)
    /\ UNCHANGED acquired

\* pool.connect() settles; on success the code runs up to the count query
Connect(j) ==
    /\ alive /\ Quiescent /\ pc[j] = "connect"
    /\ \/ /\ CheckedOut < PoolMax
          /\ client' = [client EXCEPT ![j] = TRUE]
          /\ acquired' = [acquired EXCEPT ![j] = @ + 1]
          /\ pc' = [pc EXCEPT ![j] = "count"]
          /\ err' = err
       \/ /\ err' = [err EXCEPT ![j] = "E_connect"]
          /\ pc' = [pc EXCEPT ![j] = "rejected"]
          /\ UNCHANGED <<client, acquired>>
    /\ resp' = NoResp
    /\ UNCHANGED <<request, fileSize, truncated>>
    /\ UNCHANGED <<jobs, released, cursorOpen, cursorLeft, fetched, batch,
                   written, processedRows, streams, opened, fileExists,
                   timers, cancelOk, alive>>

\* the count query settles
CountResult(j) ==
    /\ alive /\ Quiescent /\ pc[j] = "count"
    /\ \/ OuterCatch(j, "E_query")
       \/ /\ jobs' = [jobs EXCEPT
                ![j] = completeJob([@ EXCEPT !.progress.totalRows = 0])]
          /\ fileExists' = [fileExists EXCEPT ![j] = TRUE]
          /\ client' = [client EXCEPT ![j] = FALSE]
          /\ released' = [released EXCEPT ![j] = @ + 1]
          /\ pc' = [pc EXCEPT ![j] = "done"]
          /\ UNCHANGED <<acquired, err, cursorLeft, fetched, batch, written,
                         processedRows>>
       \/ \E n \in 1..MaxRows :
          /\ jobs' = [jobs EXCEPT ![j].progress.totalRows = n]
          /\ pc' = [pc EXCEPT ![j] = "declare"]
          /\ UNCHANGED <<fileExists, client, acquired, released, err,
                         cursorLeft, fetched, batch, written, processedRows>>
    /\ resp' = NoResp
    /\ UNCHANGED <<request, fileSize, truncated>>
    /\ UNCHANGED <<cursorOpen, streams, opened, timers, cancelOk, alive>>

\* DECLARE CURSOR settles; on success the streams are created and the
\* loop is entered
DeclareResult(j) ==
    /\ alive /\ Quiescent /\ pc[j] = "declare"
    /\ \/ /\ OuterCatch(j, "E_query")
          /\ UNCHANGED <<cursorOpen, streams>>
       \/ \E m \in 0..MaxRows :
          /\ cursorOpen' = [cursorOpen EXCEPT ![j] = TRUE]
          /\ cursorLeft' = [cursorLeft EXCEPT ![j] = m]
          /\ fetched' = fetched
          /\ streams' = [streams EXCEPT ![j] = TRUE]
          /\ pc' = [pc EXCEPT ![j] = LoopTop(jobs[j])]
          /\ UNCHANGED <<jobs, fileExists, client, acquired, released, err,
                         batch, written, processedRows>>
    /\ resp' = NoResp
    /\ UNCHANGED <<request, fileSize, truncated>>
    /\ UNCHANGED <<opened, timers, cancelOk, alive>>

\* a for loop that submits one more record after a write has returned
\* false, and only then waits for 'drain'
WriteBatchNoWait(j, rows, p) ==
    \E k \in 1..(Len(rows) + 1) :
        IF k < Len(rows)
        THEN /\ written' = [written EXCEPT ![j] = @ \o SubSeq(rows, 1, k + 1)]
             /\ batch' = [batch EXCEPT ![j] = SubSeq(rows, k + 2, Len(rows))]
             /\ processedRows' = [processedRows EXCEPT ![j] = p + (k - 1)]
             /\ pc' = [pc EXCEPT ![j] = "drain"]
             /\ jobs' = jobs
        ELSE IF k = Len(rows)
        THEN /\ written' = [written EXCEPT ![j] = @ \o rows]
             /\ batch' = [batch EXCEPT ![j] = <<>>]
             /\ processedRows' = [processedRows EXCEPT ![j] = p + (k - 1)]
             /\ pc' = [pc EXCEPT ![j] = "drain"]
             /\ jobs' = jobs
        ELSE /\ written' = [written EXCEPT ![j] = @ \o rows]
             /\ batch' = [batch EXCEPT ![j] = <<>>]
             /\ processedRows' = [processedRows EXCEPT ![j] = p + Len(rows)]
             /\ jobs' = [jobs EXCEPT ![j] = updateProgress(@, p + Len(rows),
                                              jobs[j].progress.totalRows)]
             /\ pc' = [pc EXCEPT ![j] = LoopTop(jobs[j])]

\* the for loop taking a write that returned false as not accepted: the
\* record is written again after 'drain'
WriteBatchRetry(j, rows, p) ==
    \E k \in 1..(Len(rows) + 1) :
        IF k <= Len(rows)
        THEN /\ written' = [written EXCEPT ![j] = @ \o SubSeq(rows, 1, k)]
             /\ batch' = [batch EXCEPT ![j] = SubSeq(rows, k, Len(rows))]
             /\ processedRows' = [processedRows EXCEPT ![j] = p + (k - 1)]
             /\ pc' = [pc EXCEPT ![j] = "drain"]
             /\ jobs' = jobs
        ELSE /\ written' = [written EXCEPT ![j] = @ \o rows]
             /\ batch' = [batch EXCEPT ![j] = <<>>]
             /\ processedRows' = [processedRows EXCEPT ![j] = p + Len(rows)]
             /\ jobs' = [jobs EXCEPT ![j] = updateProgress(@, p + Len(rows),
                                              jobs[j].progress.totalRows)]
             /\ pc' = [pc EXCEPT ![j] = LoopTop(jobs[j])]

\* the for loop over rows, entered with local counter p: it runs to the
\* first write that returns false (the k-th) or to the end of the batch,
\* where progress is published and the loop head is evaluated
WriteBatch(j, rows, p) ==
    \E k \in 1..(Len(rows) + 1) :
        IF k <= Len(rows)
        THEN /\ written' = [written EXCEPT ![j] = @ \o SubSeq(rows, 1, k)]
             /\ batch' = [batch EXCEPT ![j] = SubSeq(rows, k + 1, Len(rows))]
             /\ processedRows' = [processedRows EXCEPT ![j] = p + (k - 1)]
             /\ pc' = [pc EXCEPT ![j] = "drain"]
             /\ jobs' = jobs
        ELSE /\ written' = [written EXCEPT ![j] = @ \o rows]
             /\ batch' = [batch EXCEPT ![j] = <<>>]
             /\ processedRows' = [processedRows EXCEPT ![j] = p + Len(rows)]
             /\ jobs' = [jobs EXCEPT ![j] = updateProgress(@, p + Len(rows),
                                              jobs[j].progress.totalRows)]
             /\ pc' = [pc EXCEPT ![j] = LoopTop(jobs[j])]

\* the inner catch up to its `await client.query(CLOSE)`
InnerCatch(j, e) ==
    /\ err' = [err EXCEPT ![j] = e]
    /\ pc' = [pc EXCEPT ![j] = "closeCatch"]

\* FETCH settles
FetchResult(j) ==
    /\ alive /\ Quiescent /\ pc[j] = "fetch"
    /\ \/ /\ InnerCatch(j, "E_query")
          /\ UNCHANGED <<jobs, cursorLeft, fetched, batch, written, processedRows>>
       \/ LET n == IF cursorLeft[j] < BATCH_SIZE
                   THEN cursorLeft[j] ELSE BATCH_SIZE
              rows == [i \in 1..n |-> fetched[j] + i]
          IN  /\ cursorLeft' = [cursorLeft EXCEPT ![j] = @ - n]
              /\ fetched' = [fetched EXCEPT ![j] = @ + n]
              /\ err' = err
              /\ IF n = 0
                 THEN /\ pc' = [pc EXCEPT ![j] = "flush"]
                      /\ UNCHANGED <<jobs, batch, written, processedRows>>
                 ELSE WriteBatch(j, rows, processedRows[j])
    /\ resp' = NoResp
    /\ UNCHANGED <<request, fileSize, truncated>>
    /\ UNCHANGED <<client, acquired, released, cursorOpen, streams, opened,
                   fileExists, timers, cancelOk, alive>>

\* 'drain' is emitted: processedRows++ and the for loop goes on
Drain(j) ==
    /\ alive /\ Quiescent /\ pc[j] = "drain"
    /\ WriteBatch(j, batch[j], processedRows[j] + 1)
    /\ resp' = NoResp
    /\ UNCHANGED <<request, fileSize, truncated>>
    /\ UNCHANGED <<client, acquired, released, cursorOpen, cursorLeft, fetched, err,
                   streams, opened, fileExists, timers, cancelOk, alive>>

\* completeJob without waiting for 'finish': the job is completed as soon
\* as the loop has ended
FinishNoWait(j) ==
    /\ alive /\ Quiescent /\ pc[j] = "flush"
    /\ jobs' = [jobs EXCEPT ![j] = completeJob(@)]
    /\ client' = [client EXCEPT ![j] = FALSE]
    /\ released' = [released EXCEPT ![j] = @ + 1]
    /\ pc' = [pc EXCEPT ![j] = "done"]
    /\ resp' = NoResp
    /\ UNCHANGED <<request, fileSize, truncated>>
    /\ UNCHANGED <<acquired, cursorOpen, cursorLeft, fetched, batch, written,
                   processedRows, err, streams, opened, fileExists, timers,
                   cancelOk, alive>>

\* writeStream emits 'finish': every write has reached the file, which the
\* stream has therefore opened
Finish(j) ==
    /\ alive /\ Quiescent /\ pc[j] = "flush"
    /\ "ws" \in opened[j]
    /\ jobs' = [jobs EXCEPT ![j] = completeJob(@)]
    /\ client' = [client EXCEPT ![j] = FALSE]
    /\ released' = [released EXCEPT ![j] = @ + 1]
    /\ pc' = [pc EXCEPT ![j] = "done"]
    /\ resp' = NoResp
    /\ UNCHANGED <<request, fileSize, truncated>>
    /\ UNCHANGED <<acquired, cursorOpen, cursorLeft, fetched, batch, written,
                   processedRows, err, streams, opened, fileExists, timers,
                   cancelOk, alive>>

\* the CLOSE issued by the cancellation check settles; the error thrown
\* next is caught by the inner catch, which issues CLOSE again
CloseCancelResult(j) ==
    /\ alive /\ Quiescent /\ pc[j] = "closeCancel"
    /\ \/ /\ cursorOpen' = [cursorOpen EXCEPT ![j] = FALSE]
          /\ InnerCatch(j, "Export cancelled by user")
       \/ /\ cursorOpen' = cursorOpen
          /\ InnerCatch(j, "E_query")
    /\ resp' = NoResp
    /\ UNCHANGED <<request, fileSize, truncated>>
    /\ UNCHANGED <<jobs, client, acquired, released, cursorLeft, fetched, batch,
                   written, processedRows, streams, opened, fileExists,
                   timers, cancelOk, alive>>

\* the CLOSE of the inner catch settles (its error is only logged) and
\* the error is rethrown to the outer catch
CloseCatchResult(j) ==
    /\ alive /\ Quiescent /\ pc[j] = "closeCatch"
    /\ \/ cursorOpen' = [cursorOpen EXCEPT ![j] = FALSE]
       \/ cursorOpen' = cursorOpen
    /\ OuterCatch(j, err[j])
    /\ resp' = NoResp
    /\ UNCHANGED <<request, fileSize, truncated>>
    /\ UNCHANGED <<streams, opened, timers, cancelOk, alive>>

\* the .catch handler of initiateExport
CatchHandler(j) ==
    /\ alive /\ pc[j] = "rejected"
    /\ jobs' = [jobs EXCEPT ![j] = failJob(@, err[j])]
    /\ pc' = [pc EXCEPT ![j] = "done"]
    /\ resp' = NoResp
    /\ UNCHANGED <<request, fileSize, truncated>>
    /\ UNCHANGED <<client, acquired, released, cursorOpen, cursorLeft, fetched, batch,
                   written, processedRows, err, streams, opened, fileExists,
                   timers, cancelOk, alive>>

----------------------------------------------------------------------------
(* the write streams *)

\* the write streams of the pipeline that hold <id>.csv open: a stream
\* closes its descriptor after 'finish' (autoClose), which follows end();
\* only processExport's writeStream is ever ended (through the pipe, by
\* csvStringifier.end()), and no stream is destroyed on any path
OpenWriters(j) ==
    IF jobs[j].status = "completed" THEN opened[j] \ {"ws"} ELSE opened[j]

\* the open of CSVGenerator's stream finds data of the other stream in
\* <id>.csv: it may when that stream has the file open and has been piped a
\* header or a record, and it does when the job is completed
MayTruncate(j, s) ==
    /\ s = "gen" /\ "ws" \in opened[j] /\ fileExists[j]
    /\ written[j] # <<>> \/ pc[j] = "flush" \/ jobs[j].status = "completed"

MustTruncate(j, s) == s = "gen" /\ jobs[j].status = "completed"

\* a write stream opens <id>.csv (fs.createWriteStream opens lazily, with
\* flags 'w': the file is created when absent and truncated otherwise)
OpenStream(j, s) ==
    /\ alive /\ Quiescent /\ streams[j]
    /\ s \notin opened[j]
    /\ opened' = [opened EXCEPT ![j] = @ \cup {s}]
    /\ fileExists' = [fileExists EXCEPT ![j] = TRUE]
    /\ \E t \in BOOLEAN :
        /\ t => MayTruncate(j, s)
        /\ MustTruncate(j, s) => t
        /\ truncated' = [truncated EXCEPT ![j] = @ \/ t]
    /\ resp' = NoResp
    /\ UNCHANGED <<request, fileSize>>
    /\ UNCHANGED <<jobs, pc, client, acquired, released, cursorOpen,
                   cursorLeft, fetched, batch, written, processedRows, err, streams,
                   timers, cancelOk, alive>>

\* the encoder or the file writer emits 'error' while the pipeline runs.
\* The only listener is writeStream.on('error', reject), attached once the
\* loop has ended; any other 'error' is unhandled: the uncaughtException
\* handler calls process.exit(1), and with the process go the registry,
\* the pipelines, the pool and the streams. The files stay.
StreamError(j, src) ==
    /\ alive /\ Quiescent /\ streams[j]
    /\ pc[j] \in {"fetch", "drain", "flush", "closeCancel", "closeCatch"}
    /\ IF src = "writer" /\ pc[j] = "flush"
       THEN /\ InnerCatch(j, "E_writer")
            /\ UNCHANGED <<jobs, client, acquired, released, cursorOpen,
                           cursorLeft, fetched, batch, written, processedRows,
                           streams, opened, timers, cancelOk, alive>>
       ELSE /\ alive' = FALSE
            /\ err' = [err EXCEPT ![j] = "E_" \o src]
            /\ jobs' = <<>>
            /\ pc' = [k \in JobIds |-> "none"]
            /\ client' = [k \in JobIds |-> FALSE]
            /\ acquired' = [k \in JobIds |-> 0]
            /\ released' = [k \in JobIds |-> 0]
            /\ cursorOpen' = [k \in JobIds |-> FALSE]
            /\ cursorLeft' = [k \in JobIds |-> 0]
            /\ fetched' = [k \in JobIds |-> 0]
            /\ batch' = [k \in JobIds |-> <<>>]
            /\ written' = [k \in JobIds |-> <<>>]
            /\ processedRows' = [k \in JobIds |-> 0]
            /\ streams' = [k \in JobIds |-> FALSE]
            /\ opened' = [k \in JobIds |-> {}]
            /\ timers' = {}
            /\ cancelOk' = [k \in JobIds |-> FALSE]
    /\ resp' = NoResp
    /\ UNCHANGED <<request, fileSize, truncated>>
    /\ UNCHANGED fileExists

----------------------------------------------------------------------------
(* cancel *)

\* DELETE /exports/{id}
Cancel(id) ==
    /\ alive /\ Quiescent
    /\ IF id \notin DOMAIN jobs
       THEN /\ resp' = [op |-> "DELETE", id |-> id, code |-> 404]
            /\ UNCHANGED <<jobs, timers, cancelOk>>
       ELSE LET cancelled == cancelJobOk(jobs[id])
            IN  /\ jobs' = [jobs EXCEPT ![id] = cancelJob(@)]
                /\ timers' = IF cancelled /\ jobs[id].filePath
                             THEN timers \cup {id} ELSE timers
                /\ cancelOk' = [cancelOk EXCEPT ![id] = @ \/ cancelled]
                /\ resp' = [op |-> "DELETE", id |-> id,
                            code |-> IF cancelled THEN 204 ELSE 400]
    /\ UNCHANGED <<pc, client, acquired, released, cursorOpen, cursorLeft,
                   fetched, batch, written, processedRows, err, streams,
                   opened, fileExists, alive, request, fileSize, truncated>>

\* the cleanup timer armed by cancelExport fires (setTimeout, 100 ms).
\* No reachable state has a timer armed (NoTimerArmed), so this action is
\* never enabled and Next leaves it out.
CleanupTimer(id) ==
    /\ alive /\ Quiescent
    /\ id \in timers
    /\ timers' = timers \ {id}
    /\ fileExists' = [fileExists EXCEPT ![id] = FALSE]
    /\ resp' = NoResp
    /\ UNCHANGED <<request, fileSize, truncated>>
    /\ UNCHANGED <<jobs, pc, client, acquired, released, cursorOpen,
                   cursorLeft, fetched, batch, written, processedRows, err, streams,
                   opened, cancelOk, alive>>

----------------------------------------------------------------------------
(* download *)

\* everything of the pipeline, the cancel handler and the process is left
\* as it is
HandlerFrame ==
    UNCHANGED <<client, acquired, released, cursorOpen, cursorLeft, fetched,
                batch, written, processedRows, err, streams, opened,
                fileExists, timers, cancelOk, alive, request, fileSize,
                truncated>>

\* ExportService.getFilePath: FALSE for null
getFilePath(id) ==
    IF id \notin DOMAIN jobs \/ jobs[id].status # "completed"
    THEN FALSE ELSE jobs[id].filePath

\* a response of the download handler; a header that is not set is <<>>
Response(id, code, message, contentRange, contentLength, gzip) ==
    [op |-> "GET", id |-> id, code |-> code, message |-> message,
     contentRange |-> contentRange, contentLength |-> contentLength,
     gzip |-> gzip]

\* the Range branch with the first test of its guard off by one
RangeResponseOffByOne(req, size) ==
    LET parts == Split(req.range[1])
        start == parseInt(parts[1])
        end == IF Len(parts) >= 2 /\ parts[2] # <<>>
               THEN parseInt(parts[2]) ELSE Num(size - 1)
    IN  IF Gt(start, Num(size)) \/ Gt(start, end)
        THEN Response(req.id, 416, "none",
                      <<"bytes ", "*", "/">> \o Dec(size), <<>>, FALSE)
        ELSE IF start.nan \/ end.nan
        THEN Response(req.id, 500, "Internal server error", <<>>, <<>>,
                      FALSE)
        ELSE Response(req.id, 206, "none",
                      <<"bytes ">> \o Dec(start.v) \o <<"-">> \o Dec(end.v)
                          \o <<"/">> \o Dec(size),
                      IF req.gzip THEN <<>> ELSE <<(end.v - start.v) + 1>>,
                      req.gzip)

\* the Range branch of downloadExport. req.range[1] is what follows
\* "bytes=" in the header. fs.createReadStream throws on a start or end
\* that is not an integer, before any header of the 206 is set: the catch
\* answers 500.
RangeResponse(req, size) ==
    LET parts == Split(req.range[1])
        start == parseInt(parts[1])
        end == IF Len(parts) >= 2 /\ parts[2] # <<>>
               THEN parseInt(parts[2]) ELSE Num(size - 1)
    IN  IF Ge(start, Num(size)) \/ Gt(start, end)
        THEN Response(req.id, 416, "none",
                      <<"bytes ", "*", "/">> \o Dec(size), <<>>, FALSE)
        ELSE IF start.nan \/ end.nan
        THEN Response(req.id, 500, "Internal server error", <<>>, <<>>,
                      FALSE)
        ELSE Response(req.id, 206, "none",
                      <<"bytes ">> \o Dec(start.v) \o <<"-">> \o Dec(end.v)
                          \o <<"/">> \o Dec(size),
                      IF req.gzip THEN <<>> ELSE <<(end.v - start.v) + 1>>,
                      req.gzip)

\* the response without a Range header
FullResponse(req, size) ==
    Response(req.id, 200, "none", <<>>,
             IF req.gzip THEN <<>> ELSE <<size>>, req.gzip)

\* downloadExport serving the file of any job that has one
downloadExportAnyStatus(req) ==
    IF req.id \notin DOMAIN jobs
    THEN Response(req.id, 404, "Export not found", <<>>, <<>>, FALSE)
    ELSE IF ~fileExists[req.id]
    THEN Response(req.id, 404, "File not found", <<>>, <<>>, FALSE)
    ELSE IF req.range # Undefined
    THEN RangeResponse(req, fileSize)
    ELSE FullResponse(req, fileSize)

\* ExportController.downloadExport
downloadExport(req) ==
    IF req.id \notin DOMAIN jobs
    THEN Response(req.id, 404, "Export not found", <<>>, <<>>, FALSE)
    ELSE IF jobs[req.id].status # "completed"
    THEN Response(req.id, 425,
                  "Export is " \o jobs[req.id].status
                      \o ". Please wait for completion or check status.",
                  <<>>, <<>>, FALSE)
    ELSE IF getFilePath(req.id) = FALSE \/ ~fileExists[req.id]
    THEN Response(req.id, 404, "File not found", <<>>, <<>>, FALSE)
    ELSE IF req.range # Undefined
    THEN RangeResponse(req, fileSize)
    ELSE FullResponse(req, fileSize)

\* GET /exports/{id}/download is answered
Download ==
    /\ alive /\ Quiescent
    /\ request.op = "GET" /\ resp = NoResp
    /\ resp' = downloadExport(request)
    /\ UNCHANGED <<jobs, pc>>
    /\ HandlerFrame

\* the characters of a Range header after "bytes="
RangeChars == {Digits[i] : i \in 1..(MaxSize + 2)} \cup {"-"}

RECURSIVE SeqsUpTo(_, _)
SeqsUpTo(S, n) ==
    IF n = 0 THEN {<<>>}
    ELSE LET shorter == SeqsUpTo(S, n - 1)
         IN  shorter \cup {Append(q, c) : q \in shorter, c \in S}

DownloadRequests ==
    [op : {"GET"}, id : {1},
     range : {Undefined} \cup {Given(r) : r \in SeqsUpTo(RangeChars, MaxRange)},
     gzip : BOOLEAN]

\* the records the registry holds for a job a handler can find: a job is
\* processing once its initiate has returned
JobRecords ==
    LET processing == startJob(addJob(JobData(Validate(NoParams).value)))
    IN  {processing,
         completeJob(processing),
         failJob(failJob(processing, "E_query"), "E_query"),
         cancelJob(processing)}

\* The download handler finds no job or a job in any state, and on disk no
\* file or a file of any size: the export directory is not the service's
\* alone, and getFilePath does not look at the disk.
InitDownload ==
    /\ jobs \in {<<>>} \cup {(1 :> r) : r \in JobRecords}
    /\ \E b \in BOOLEAN : fileExists = [j \in JobIds |-> j = 1 /\ b]
    /\ fileSize \in 0..MaxSize
    /\ ~fileExists[1] => fileSize = 0
    /\ truncated = [j \in JobIds |-> FALSE]
    /\ request \in DownloadRequests
    /\ pc = [j \in JobIds |->
                IF j \notin DOMAIN jobs THEN "none"
                ELSE IF jobs[j].status = "processing" THEN "connect"
                ELSE "done"]
    /\ client = [j \in JobIds |-> FALSE]
    /\ acquired = [j \in JobIds |-> 0]
    /\ released = [j \in JobIds |-> 0]
    /\ cursorOpen = [j \in JobIds |-> FALSE]
    /\ cursorLeft = [j \in JobIds |-> 0]
    /\ fetched = [j \in JobIds |-> 0]
    /\ batch = [j \in JobIds |-> <<>>]
    /\ written = [j \in JobIds |-> <<>>]
    /\ processedRows = [j \in JobIds |-> 0]
    /\ err = [j \in JobIds |-> "none"]
    /\ streams = [j \in JobIds |-> FALSE]
    /\ opened = [j \in JobIds |-> {}]
    /\ timers = {}
    /\ cancelOk = [j \in JobIds |-> FALSE]
    /\ resp = NoResp
    /\ alive = TRUE

NextDownload == Download

SpecDownload == InitDownload /\ [][NextDownload]_vars

----------------------------------------------------------------------------
(* initiate handler *)

\* POST /exports/csv: ExportController.initiateExport up to the first
\* await of ExportService.initiateExport; a validator that throws is
\* answered 400 by the catch
InitiateExport ==
    /\ alive /\ Quiescent
    /\ request.op = "POST" /\ resp = NoResp /\ jobs = <<>>
    /\ LET v == Validate(request)
       IN  IF v.error # "none"
           THEN /\ resp' = [op |-> "POST", id |-> 0, code |-> 400,
                            message |-> v.error]
                /\ UNCHANGED <<jobs, pc>>
           ELSE /\ jobs' = jobs @@ (1 :> addJob(JobData(v.value)))
                /\ pc' = [pc EXCEPT ![1] = "added"]
                /\ resp' = NoResp
    /\ HandlerFrame

\* a controller that would answer once the export has run, as if the
\* service awaited processExport
Respond202AfterExport ==
    /\ alive /\ ResponsePending /\ pc[1] = "done"
    /\ resp' = [op |-> "POST", id |-> 1, code |-> 202, message |-> "pending"]
    /\ request' = [request EXCEPT !.op = "answered"]
    /\ UNCHANGED <<jobs, pc, client, acquired, released, cursorOpen,
                   cursorLeft, fetched, batch, written, processedRows, err,
                   streams, opened, fileExists, timers, cancelOk, alive,
                   fileSize, truncated>>

\* ExportService.initiateExport returns exportId once processExport has
\* been called (and has run to its first await); the controller resumes
\* and answers 202 {exportId, status: 'pending'}
Respond202 ==
    /\ alive /\ ResponsePending /\ pc[1] # "added"
    /\ resp' = [op |-> "POST", id |-> 1, code |-> 202, message |-> "pending"]
    /\ request' = [request EXCEPT !.op = "answered"]
    /\ UNCHANGED <<jobs, pc, client, acquired, released, cursorOpen,
                   cursorLeft, fetched, batch, written, processedRows, err,
                   streams, opened, fileExists, timers, cancelOk, alive,
                   fileSize, truncated>>

\* the pieces of a columns parameter
Pieces ==
    {[name |-> "id", pad |-> FALSE], [name |-> "id", pad |-> TRUE],
     [name |-> "name", pad |-> FALSE], [name |-> "ssn", pad |-> FALSE],
     [name |-> "", pad |-> FALSE]}

InitiateRequests ==
    [op : {"POST"},
     columns : {Undefined}
         \cup {Given(c) : c \in SeqsUpTo(Pieces, MaxCols) \ {<<>>}},
     delimiter : {Undefined, Given(<<>>), Given(<<"|">>), Given(<<"\"">>),
                  Given(<<"|", "|">>)},
     quoteChar : {Undefined, Given(<<"|">>), Given(<<"'">>),
                  Given(<<"'", "'">>)},
     country_code : {Undefined, Given(<<>>), Given(<<"U", "S">>),
                     Given(<<"u", "s">>), Given(<<"U", "S", "A">>)},
     subscription_tier : {Undefined, Given("free"), Given("gold")},
     min_ltv : {Undefined, Given(<<>>), Given(<<"5">>), Given(<<"-", "5">>),
                Given(<<"a">>), Given(<<"5", "a">>),
                Given(<<"1", ".", "5">>)}]

InitInitiate ==
    /\ request \in InitiateRequests
    /\ jobs = <<>>
    /\ pc = [j \in JobIds |-> "none"]
    /\ client = [j \in JobIds |-> FALSE]
    /\ acquired = [j \in JobIds |-> 0]
    /\ released = [j \in JobIds |-> 0]
    /\ cursorOpen = [j \in JobIds |-> FALSE]
    /\ cursorLeft = [j \in JobIds |-> 0]
    /\ fetched = [j \in JobIds |-> 0]
    /\ batch = [j \in JobIds |-> <<>>]
    /\ written = [j \in JobIds |-> <<>>]
    /\ processedRows = [j \in JobIds |-> 0]
    /\ err = [j \in JobIds |-> "none"]
    /\ streams = [j \in JobIds |-> FALSE]
    /\ opened = [j \in JobIds |-> {}]
    /\ fileExists = [j \in JobIds |-> FALSE]
    /\ timers = {}
    /\ cancelOk = [j \in JobIds |-> FALSE]
    /\ resp = NoResp
    /\ alive = TRUE
    /\ fileSize = 0
    /\ truncated = [j \in JobIds |-> FALSE]

\* the request, and the pipeline it starts up to its count query
NextInitiate ==
    \/ InitiateExport
    \/ \E j \in JobIds : StartPipeline(j)
    \/ Respond202
    \/ \E j \in JobIds : Connect(j)
    \/ \E j \in JobIds : CatchHandler(j)

SpecInitiate == InitInitiate /\ [][NextInitiate]_vars

----------------------------------------------------------------------------
(* admission: more initiates than the declared cap *)

AdmitIds == 1..MaxAdmit

InitAdmit ==
    /\ jobs = <<>>
    /\ pc = [j \in AdmitIds |-> "none"]
    /\ client = [j \in AdmitIds |-> FALSE]
    /\ acquired = [j \in AdmitIds |-> 0]
    /\ released = [j \in AdmitIds |-> 0]
    /\ cursorOpen = [j \in AdmitIds |-> FALSE]
    /\ cursorLeft = [j \in AdmitIds |-> 0]
    /\ fetched = [j \in AdmitIds |-> 0]
    /\ batch = [j \in AdmitIds |-> <<>>]
    /\ written = [j \in AdmitIds |-> <<>>]
    /\ processedRows = [j \in AdmitIds |-> 0]
    /\ err = [j \in AdmitIds |-> "none"]
    /\ streams = [j \in AdmitIds |-> FALSE]
    /\ opened = [j \in AdmitIds |-> {}]
    /\ fileExists = [j \in AdmitIds |-> FALSE]
    /\ timers = {}
    /\ cancelOk = [j \in AdmitIds |-> FALSE]
    /\ resp = NoResp
    /\ alive = TRUE
    /\ request = NoRequest
    /\ fileSize = 0
    /\ truncated = [j \in AdmitIds |-> FALSE]

\* initiates, and each pipeline up to its count query (which stays in
\* flight: the jobs keep processing)
NextAdmit ==
    \/ AddJobIn(AdmitIds)
    \/ \E j \in AdmitIds : StartPipeline(j)
    \/ \E j \in AdmitIds : Connect(j)
    \/ \E j \in AdmitIds : CatchHandler(j)

SpecAdmit == InitAdmit /\ [][NextAdmit]_vars

----------------------------------------------------------------------------

Next ==
    \/ AddJob
    \/ \E j \in JobIds : StartPipeline(j)
    \/ \E j \in JobIds : Connect(j)
    \/ \E j \in JobIds : CountResult(j)
    \/ \E j \in JobIds : DeclareResult(j)
    \/ \E j \in JobIds : FetchResult(j)
    \/ \E j \in JobIds : Drain(j)
    \/ \E j \in JobIds : Finish(j)
    \/ \E j \in JobIds : CloseCancelResult(j)
    \/ \E j \in JobIds : CloseCatchResult(j)
    \/ \E j \in JobIds : CatchHandler(j)
    \/ \E j \in JobIds, s \in Streams : OpenStream(j, s)
    \/ \E j \in JobIds, src \in {"encoder", "writer"} : StreamError(j, src)
    \/ \E id \in JobIds : Cancel(id)

Spec == Init /\ [][Next]_vars

\* Fair scheduling: a continuation that is ready runs, and a database
\* call, a pool request, an open of the file and the writer's 'drain' and
\* 'finish' that are outstanding eventually settle.  Requests (initiate,
\* cancel) and stream errors are under no obligation to occur.
Fairness ==
    \A j \in JobIds :
        /\ WF_vars(StartPipeline(j))
        /\ WF_vars(Connect(j))
        /\ WF_vars(CountResult(j))
        /\ WF_vars(DeclareResult(j))
        /\ WF_vars(FetchResult(j))
        /\ WF_vars(Drain(j))
        /\ WF_vars(Finish(j))
        /\ WF_vars(CloseCancelResult(j))
        /\ WF_vars(CloseCatchResult(j))
        /\ WF_vars(CatchHandler(j))
        /\ \A s \in Streams : WF_vars(OpenStream(j, s))

FairSpec == Spec /\ Fairness

TypeOK ==
    /\ DOMAIN jobs \subseteq JobIds
    /\ \A j \in DOMAIN jobs :
        jobs[j].status \in {"pending", "processing"} \cup Terminal
    /\ timers \subseteq JobIds

\* cancelExport arms its timer only when the cancelled job has a filePath;
\* filePath is set by completeJob alone, and a completed job is never
\* cancelled, so the timer is never armed and CleanupTimer is not a
\* disjunct of Next.
NoTimerArmed == timers = {}

----------------------------------------------------------------------------
(* Properties *)

Edges ==
    {<<"pending", "processing">>, <<"processing", "completed">>,
     <<"pending", "failed">>, <<"processing", "failed">>,
     <<"pending", "cancelled">>, <<"processing", "cancelled">>}

\* the pipeline of job j has run and is over
Exited(j) == pc[j] = "done"

\* C1: every change of a job's status is an edge of the graph
\* pending -> processing -> completed, pending|processing -> failed,
\* pending|processing -> cancelled; no job leaves a terminal state.
C1_StatusGraph ==
    [][\A j \in DOMAIN jobs :
          j \in DOMAIN jobs' =>
              \/ jobs'[j].status = jobs[j].status
              \/ <<jobs[j].status, jobs'[j].status>> \in Edges]_vars

\* C2: once a DELETE for a job was answered 204, every status read of the
\* job returns cancelled.
C2_CancelledStays ==
    \A j \in DOMAIN jobs : cancelOk[j] => jobs[j].status = "cancelled"

\* C3: after a cancellation that was answered 204, once the pipeline has
\* exited and no cleanup is pending, <id>.csv does not exist.
C3_NoArtifactAfterCancel ==
    \A j \in JobIds :
        (cancelOk[j] /\ Exited(j) /\ j \notin timers
            /\ opened[j] = (IF streams[j] THEN Streams ELSE {}))
        => ~fileExists[j]

\* C4: a terminal-state setter takes effect at most once per job (completedAt
\* is written once), and completedAt is set iff the status is terminal.
C4_OneTerminalTransition ==
    \A j \in DOMAIN jobs :
        /\ jobs[j].completedAt <= 1
        /\ (jobs[j].completedAt > 0) <=> (jobs[j].status \in Terminal)

\* C5: the updateProgress call that ends a batch leaves the progress of a
\* job whose status is terminal unchanged.
C5_ProgressFrozenWhenTerminal ==
    [][\A j \in DOMAIN jobs :
          (/\ j \in DOMAIN jobs'
           /\ pc[j] \in {"fetch", "drain"}
           /\ pc'[j] \in {"fetch", "closeCancel"}
           /\ jobs[j].status \in Terminal)
          => jobs'[j].progress = jobs[j].progress]_vars

\* C6: a DELETE answers 404 for an unknown id and changes nothing; for a
\* job in pending or processing it answers 204 and the job becomes
\* cancelled; for a job in a terminal state it answers 400 and the job
\* record is unchanged; after a 204 every further DELETE of the job
\* answers 400.
C6_CancelContract ==
    [][\A id \in JobIds :
          (resp'.op = "DELETE" /\ resp'.id = id) =>
              IF id \notin DOMAIN jobs
              THEN resp'.code = 404 /\ jobs' = jobs
              ELSE IF jobs[id].status \in {"pending", "processing"}
              THEN /\ resp'.code = 204
                   /\ ~cancelOk[id]
                   /\ jobs'[id].status = "cancelled"
                   /\ jobs'[id].completedAt # jobs[id].completedAt
              ELSE /\ resp'.code = 400
                   /\ jobs' = jobs]_vars

\* a second DELETE of a job that was cancelled is answered 400
C6_Witness ==
    \E j \in DOMAIN jobs :
        cancelOk[j] /\ resp = [op |-> "DELETE", id |-> j, code |-> 400]

\* C7: a pipeline that was aborted by an error ends with the job in failed
\* and the error's message in job.error.
C7_ErrorFailsJob ==
    \A j \in JobIds :
        (err[j] # "none" /\ (Exited(j) \/ ~alive)) =>
            /\ j \in DOMAIN jobs
            /\ jobs[j].status = "failed"
            /\ jobs[j].error = err[j]

\* a pipeline is between the acquisition of its connection and its exit
Running(j) ==
    pc[j] \in {"count", "declare", "fetch", "drain", "flush", "closeCancel",
               "closeCatch"}

\* C8: a pipeline holds one connection from its acquisition to its exit and
\* none otherwise; at its exit it has released what it acquired, once; a
\* pipeline whose acquisition failed releases nothing; no connection is
\* checked out when no pipeline runs.
C8_ConnectionReleased ==
    /\ \A j \in JobIds :
        /\ acquired[j] <= 1 /\ released[j] <= acquired[j]
        /\ client[j] <=> (acquired[j] - released[j] = 1)
        /\ Running(j) => client[j]
        /\ pc[j] \in {"none", "added", "connect"} => acquired[j] = 0
        /\ pc[j] \in {"rejected", "done"} => released[j] = acquired[j]
        /\ (pc[j] \in {"rejected", "done"} /\ err[j] = "E_connect")
               => released[j] = 0
    /\ (\A j \in JobIds : ~Running(j)) => CheckedOut = 0

\* a pipeline that observed a cancellation has exited, its connection
\* released
C8_Witness ==
    \E j \in DOMAIN jobs :
        /\ Exited(j) /\ acquired[j] = 1 /\ released[j] = 1
        /\ jobs[j].error = "Export cancelled by user"

\* C9: the artifact of a completed job exists, and no cleanup of it is
\* pending.
C9_CompletedHasArtifact ==
    \A j \in DOMAIN jobs :
        jobs[j].status = "completed" => fileExists[j] /\ j \notin timers

\* a completed job whose DELETE was refused keeps its artifact
C9_Witness ==
    \E j \in DOMAIN jobs :
        /\ jobs[j].status = "completed" /\ written[j] # <<>>
        /\ resp = [op |-> "DELETE", id |-> j, code |-> 400]
        /\ fileExists[j]

\* C10: once a pipeline has exited with the job in failed or cancelled, the
\* file <id>.csv does not exist.
C10_NoPartialFile ==
    \A j \in DOMAIN jobs :
        (Exited(j) /\ jobs[j].status \in {"failed", "cancelled"})
            => ~fileExists[j]

\* C11: a job's filePath is set if and only if its status is completed; in
\* particular it is unset while the job is pending or processing.
C11_FilePathIffCompleted ==
    \A j \in DOMAIN jobs :
        jobs[j].filePath <=> (jobs[j].status = "completed")

\* a job that was cancelled and then completed by its pipeline has its
\* filePath set
C11_Witness ==
    \E j \in DOMAIN jobs :
        cancelOk[j] /\ jobs[j].status = "completed" /\ jobs[j].filePath

\* C12: a job's error is populated if and only if its status is failed.
C12_ErrorIffFailed ==
    \A j \in DOMAIN jobs :
        (jobs[j].error # "none") <=> (jobs[j].status = "failed")

\* a job whose pipeline could not get a connection is failed with the
\* error of pool.connect()
C12_Witness ==
    \E j \in DOMAIN jobs :
        /\ jobs[j].status = "failed" /\ jobs[j].error = "E_connect"
        /\ acquired[j] = 0

\* C13: percentage = round(processedRows * 100 / totalRows) when
\* totalRows > 0 and percentage = 0 when totalRows = 0; a job that
\* completes with zero matching rows reports progress {0, 0, 0}.
C13_PercentageFormula ==
    \A j \in DOMAIN jobs :
        LET g == jobs[j].progress
        IN  g.percentage =
                (IF g.totalRows > 0
                 THEN (200 * g.processedRows + g.totalRows)
                          \div (2 * g.totalRows)
                 ELSE 0)

\* C14: the published processedRows never decreases from one step to the
\* next, and once totalRows is known 0 <= processedRows <= totalRows,
\* provided the cursor's result has as many rows as the count query
\* counted.
C14_ProcessedRowsMonotone ==
    /\ [](\A j \in DOMAIN jobs :
            (\/ pc[j] = "declare"
             \/ streams[j] /\ CursorRows(j) = jobs[j].progress.totalRows)
            => /\ 0 <= jobs[j].progress.processedRows
               /\ jobs[j].progress.processedRows
                      <= jobs[j].progress.totalRows)
    /\ [][\A j \in DOMAIN jobs :
            j \in DOMAIN jobs' =>
                jobs'[j].progress.processedRows
                    >= jobs[j].progress.processedRows]_vars

\* after the first of two batches the job publishes 2 of 3 rows
C14_Witness ==
    \E j \in DOMAIN jobs :
        /\ pc[j] = "fetch" /\ CursorRows(j) = 3 /\ cursorLeft[j] = 1
        /\ jobs[j].progress.totalRows = 3
        /\ jobs[j].progress.processedRows = 2

\* C15: the artifact of a completed job holds one header line and one line
\* per counted row (totalRows + 1 lines, 1 line when totalRows = 0): the
\* number of records written before completeJob equals totalRows.
C15_LineCount ==
    \A j \in DOMAIN jobs :
        jobs[j].status = "completed" =>
            /\ Len(written[j]) = jobs[j].progress.totalRows
            /\ ArtifactLines(j) = jobs[j].progress.totalRows + 1

\* C16: the records handed to the encoder are the rows the fetches
\* returned, in the order returned, each once, also while the pipeline is
\* suspended on 'drain' inside a batch (the rows of the batch still to be
\* written follow); outside the for loop every fetched row was written,
\* and the loop ends only when the cursor is exhausted.
C16_RecordsInOrder ==
    \A j \in JobIds :
        /\ written[j] \o batch[j] = [i \in 1..fetched[j] |-> i]
        /\ pc[j] # "drain" => batch[j] = <<>>
        /\ pc[j] = "flush" => cursorLeft[j] = 0

\* the pipeline is suspended on 'drain' after the first row of a batch of
\* two, with a third row still in the cursor
C16_Witness ==
    \E j \in JobIds :
        /\ pc[j] = "drain" /\ written[j] = <<1>> /\ batch[j] = <<2>>
        /\ cursorLeft[j] = 1

\* C17: GET /exports/{id}/download answers 404 when the job does not
\* exist, 425 with a message naming the job's state when the job is not
\* completed, 404 when the job is completed and its file is missing; it
\* answers 200 or 206 only for a completed job.
C17_DownloadGate ==
    resp.op = "GET" =>
        LET id == resp.id
        IN  /\ id \notin DOMAIN jobs => resp.code = 404
            /\ (id \in DOMAIN jobs /\ jobs[id].status # "completed") =>
                   /\ resp.code = 425
                   /\ resp.message =
                          "Export is " \o jobs[id].status
                          \o ". Please wait for completion or check status."
            /\ (id \in DOMAIN jobs /\ jobs[id].status = "completed"
                    /\ ~fileExists[id]) => resp.code = 404
            /\ resp.code \in {200, 206} =>
                   /\ id \in DOMAIN jobs
                   /\ jobs[id].status = "completed"

\* the download of a cancelled job whose file is still on disk is
\* answered 425
C17_Witness ==
    /\ resp.op = "GET" /\ resp.code = 425
    /\ jobs[1].status = "cancelled" /\ fileExists[1]

\* START and END of the Range headers the claim is about, and how they
\* are written
Numerals == 0..999
NumeralText == [n \in Numerals |-> Dec(n)]
IsNumeral(t) == \E n \in Numerals : NumeralText[n] = t
NumeralOf(t) == CHOOSE n \in Numerals : NumeralText[n] = t

\* C18: for a completed job with a file of size S and a header
\* Range: bytes=START-[END], where END defaults to S - 1, the answer is
\* 416 with Content-Range 'bytes */S' exactly when START >= S or
\* START > END, otherwise 206 with Content-Range 'bytes START-END/S' and,
\* without gzip, Content-Length END - START + 1; bytes=0- on a non-empty
\* file is answered 206 over the whole file and bytes=S- is answered 416.
C18_RangeArithmetic ==
    (/\ resp.op = "GET" /\ request.op = "GET" /\ request.range # Undefined
     /\ 1 \in DOMAIN jobs /\ jobs[1].status = "completed" /\ fileExists[1])
    =>
    LET S == fileSize
        h == request.range[1]
        dashes == {i \in 1..Len(h) : h[i] = "-"}
        dash == CHOOSE i \in dashes : TRUE
        startText == SubSeq(h, 1, dash - 1)
        endText == SubSeq(h, dash + 1, Len(h))
        START == NumeralOf(startText)
        END == IF endText = <<>> THEN S - 1 ELSE NumeralOf(endText)
    IN
    /\ (/\ Cardinality(dashes) = 1 /\ IsNumeral(startText)
        /\ endText = <<>> \/ IsNumeral(endText))
       => IF START >= S \/ START > END
          THEN /\ resp.code = 416
               /\ resp.contentRange = <<"bytes ", "*", "/">> \o Dec(S)
          ELSE /\ resp.code = 206
               /\ resp.contentRange =
                      <<"bytes ">> \o startText \o <<"-">> \o Dec(END)
                          \o <<"/">> \o Dec(S)
               /\ ~request.gzip =>
                      resp.contentLength = <<(END - START) + 1>>
    /\ (h = <<"0", "-">> /\ S > 0) =>
           /\ resp.code = 206
           /\ resp.contentRange =
                  <<"bytes ", "0", "-">> \o Dec(S - 1) \o <<"/">> \o Dec(S)
    /\ h = Dec(S) \o <<"-">> => resp.code = 416

\* bytes=1-2 of a file of 3 bytes, without gzip: 206 with Content-Length 2
C18_Witness ==
    /\ resp.op = "GET" /\ resp.code = 206 /\ fileSize = 3
    /\ request.range = Given(<<"1", "-", "2">>) /\ ~request.gzip
    /\ resp.contentLength = <<2>>

AllowList ==
    {"id", "name", "email", "signup_date", "country_code",
     "subscription_tier", "lifetime_value"}

\* the whole of s is a decimal number: digits with an optional fraction,
\* after an optional '-'
Numeric(s) ==
    LET body == IF s # <<>> /\ s[1] = "-" THEN Tail(s) ELSE s
    IN  /\ body # <<>> /\ IsDigit(body[1]) /\ IsDigit(body[Len(body)])
        /\ \A i \in 1..Len(body) : IsDigit(body[i]) \/ body[i] = "."
        /\ Cardinality({i \in 1..Len(body) : body[i] = "."}) <= 1

\* the dialect character a request asks for: its parameter, or the default
Effective(param, default) ==
    IF param = Undefined \/ param[1] = <<>> THEN default ELSE param[1]

\* the request fails validation: a column outside the allow-list, a
\* country code that is not two uppercase letters, an unknown tier, a
\* negative or non-numeric min_ltv, a delimiter or quote of several
\* characters, a delimiter equal to the quote character. An empty
\* parameter counts as absent, except min_ltv.
Invalid(q) ==
    \/ /\ q.columns # Undefined /\ ~EmptyColumns(q.columns)
       /\ \E i \in 1..Len(q.columns[1]) :
              q.columns[1][i].name \notin AllowList
    \/ /\ q.country_code # Undefined /\ q.country_code[1] # <<>>
       /\ ~(/\ Len(q.country_code[1]) = 2
            /\ \A i \in 1..2 : q.country_code[1][i] \in Upper)
    \/ /\ q.subscription_tier # Undefined /\ q.subscription_tier[1] # ""
       /\ q.subscription_tier[1]
              \notin {"free", "basic", "premium", "enterprise"}
    \/ /\ q.min_ltv # Undefined
       /\ ~Numeric(q.min_ltv[1]) \/ q.min_ltv[1][1] = "-"
    \/ q.delimiter # Undefined /\ Len(q.delimiter[1]) > 1
    \/ q.quoteChar # Undefined /\ Len(q.quoteChar[1]) > 1
    \/ Effective(q.delimiter, <<",">>) = Effective(q.quoteChar, <<"\"">>)

\* C19: an initiate request that fails validation is answered 400,
\* creates no job and starts no pipeline; every job in the registry has
\* delimiter # quoteChar.
C19_InvalidRejected ==
    /\ (request.op = "POST" /\ Invalid(request)) =>
           /\ jobs = <<>>
           /\ \A j \in JobIds : pc[j] = "none"
           /\ resp.op = "POST" => resp.code = 400
    /\ \A j \in DOMAIN jobs : jobs[j].delimiter # jobs[j].quoteChar

\* C20: the columns of every job in the registry are names of the
\* allow-list, none of them twice; an initiate request that names a
\* column twice creates no job.
C20_ColumnsNoDuplicates ==
    \A j \in DOMAIN jobs :
        LET c == jobs[j].columns
        IN  /\ \A i \in 1..Len(c) : c[i] \in AllowList
            /\ \A i, k \in 1..Len(c) : i # k => c[i] # c[k]

\* C21: a job is admitted whatever the number of processing jobs: an
\* initiate is never refused while an id is free, no job is pending except
\* in the instant between the registry insert and the start of its
\* pipeline, and that start moves it to processing at once, also when
\* maxConcurrentJobs or more jobs are processing.
C21_ImmediateAdmission ==
    /\ [](\A j \in DOMAIN jobs : jobs[j].status = "pending" => pc[j] = "added")
    /\ []((alive /\ Quiescent /\ DOMAIN jobs # AdmitIds)
            => ENABLED AddJobIn(AdmitIds))
    /\ [][\A j \in DOMAIN pc :
            pc[j] = "added" /\ pc'[j] # "added"
                => pc'[j] = "connect" /\ jobs'[j].status = "processing"]_vars

\* a job started while more than maxConcurrentJobs - 1 others are processing
C21_Witness ==
    \E j \in DOMAIN jobs :
        /\ pc[j] = "connect"
        /\ jobs[j].status = "processing"
        /\ Cardinality(Processing \ {j}) >= maxConcurrentJobs

\* C22: the 202 answer is produced as soon as the job is registered and
\* its pipeline has been called: the answering step finds the job in the
\* registry with no connection acquired, no query run and no record
\* written; while the answer is due it can always be given; and the
\* pipeline gets no further than waiting for its connection before the
\* answer is out.
C22_ResponseBeforeExport ==
    /\ []((alive /\ ResponsePending /\ pc[1] # "added") => ENABLED Respond202)
    /\ [](ResponsePending
            => pc[1] \in {"added", "connect"} /\ acquired[1] = 0)
    /\ [][resp'.code = 202 /\ resp.code # 202
            => /\ 1 \in DOMAIN jobs /\ resp'.id = 1
               /\ pc[1] = "connect" /\ acquired[1] = 0 /\ ~client[1]
               /\ written[1] = <<>> /\ jobs[1].progress.totalRows = 0
               /\ UNCHANGED <<jobs, pc>>]_vars

\* the request answered 202 and the pipeline then refused a connection
\* (the pool stayed exhausted for connectionTimeoutMillis)
C22_Witness ==
    /\ request.op = "answered"
    /\ 1 \in DOMAIN jobs
    /\ pc[1] = "rejected" /\ err[1] = "E_connect"

\* C23: once a job has been cancelled, no record of a batch whose fetch
\* completes after the cancel is written to the encoder: the step that
\* settles a FETCH issued for a cancelled job adds nothing to the records
\* written.
C23_NoWriteAfterCancel ==
    [][\A j \in DOMAIN jobs :
        jobs[j].status = "cancelled" /\ pc[j] = "fetch"
            => Len(written'[j]) <= Len(written[j])]_vars

\* C24: when a job is completed its artifact holds the header and every
\* record written: nothing that the file writer had put into <id>.csv has
\* been truncated away.
C24_CompletedArtifactIntact ==
    \A j \in DOMAIN jobs : jobs[j].status = "completed" => ~truncated[j]

\* C25: while the pipeline waits for 'drain', exactly one record beyond
\* those counted in processedRows has been submitted, and the cursor is
\* not advanced; a FETCH is in flight only when every fetched record has
\* been submitted; so the records fetched and not yet submitted are at
\* all times fewer than one batch.
C25_Backpressure ==
    /\ [](\A j \in DOMAIN jobs :
            /\ pc[j] = "drain" =>
                   /\ Len(written[j]) = processedRows[j] + 1
                   /\ Len(written[j]) + Len(batch[j]) = fetched[j]
            /\ pc[j] = "fetch" =>
                   batch[j] = <<>> /\ Len(written[j]) = fetched[j]
            /\ fetched[j] - Len(written[j]) < BATCH_SIZE)
    /\ [][\A j \in DOMAIN pc :
            pc[j] = "drain" /\ alive'
                => /\ fetched'[j] = fetched[j]
                   /\ cursorLeft'[j] = cursorLeft[j]
                   /\ Len(written'[j]) >= Len(written[j])]_vars

\* a write inside a batch returned false: the pipeline waits for 'drain'
\* with a fetched record still to submit
C25_Witness ==
    \E j \in DOMAIN jobs :
        pc[j] = "drain" /\ batch[j] # <<>> /\ jobs[j].status = "processing"

\* C26: a pipeline that declared a cursor has closed it by the time it has
\* returned its connection to the pool, on whichever path it exits.
C26_CursorClosedBeforeRelease ==
    \A j \in DOMAIN jobs :
        released[j] >= 1 /\ ~client[j] => ~cursorOpen[j]

\* C27: once a pipeline has exited with its job terminal, no write stream
\* it created holds <id>.csv open.
C27_WritersClosedAtExit ==
    \A j \in DOMAIN jobs :
        Exited(j) /\ jobs[j].status \in Terminal => OpenWriters(j) = {}

\* C28: every 206 answer describes bytes of the file: its Content-Range
\* 'bytes START-END/S' has 0 <= START <= END <= fileSize - 1 and, without
\* gzip, its Content-Length is at most fileSize - START.
C28_RangeInsideFile ==
    (resp.op = "GET" /\ resp.code = 206) =>
    LET cr == resp.contentRange
        dash == CHOOSE i \in 1..Len(cr) : cr[i] = "-"
        slash == CHOOSE i \in 1..Len(cr) : cr[i] = "/"
        START == NumeralOf(SubSeq(cr, 2, dash - 1))
        END == NumeralOf(SubSeq(cr, dash + 1, slash - 1))
    IN  /\ 0 <= START /\ START <= END /\ END <= fileSize - 1
        /\ resp.contentLength # <<>> =>
               resp.contentLength[1] <= fileSize - START

\* C29: under fair scheduling every job that has been created eventually
\* is in a terminal state with its pipeline exited.
C29_EventuallyTerminal ==
    \A j \in JobIds :
        (j \in DOMAIN jobs)
            ~> (j \in DOMAIN jobs /\ jobs[j].status \in Terminal /\ Exited(j))

====
